---- MODULE Spec2Model ----
(***************************************************************************)
(* A model of baselayer's authenticated request plane:                     *)
(*   - the websocket server (services/websocket_server/websocket_server.py)*)
(*     and the endpoint that issues its tokens (app/handlers/socket_auth.py)*)
(*   - the verified session and its commit protocol (app/models.py,         *)
(*     app/handlers/base.py)                                                *)
(*   - the migration gate of an API process (services/app/app.py)           *)
(* Each subsystem has its own next-state relation and specification; the   *)
(* variables of the other subsystems keep their initial values.            *)
(***************************************************************************)
EXTENDS Integers, Sequences, FiniteSets, TLC

None == "None"

(***************************************************************************)
(* Bounds of the model                                                     *)
(***************************************************************************)
\* on_message calls that fail authentication, per connection
MaxFails == 5
\* the clock (minutes) stops advancing here
MaxNow == 16
\* rows a behaviour creates (values the primary key sequence hands out)
MaxRows == 2
\* polls of the migration manager that end in a wait
MaxPolls == 6

(***************************************************************************)
(* Websocket server: constants                                             *)
(***************************************************************************)
Sockets == {"s1", "s2"}
\* user ids as they appear in tokens and routing keys (strings)
Users == {"1", "2"}
Star == "*"

\* self.max_auth_fails = 3
max_auth_fails == 3
\* datetime.timedelta(minutes=15)
TokenTTL == 15

VARIABLES
    \* ---- websocket server ----
    status,         \* per WebSocket object: "new" (not yet opened), "open", "closed"
    authenticated,  \* self.authenticated
    auth_failures,  \* self.auth_failures
    user_id,        \* self.user_id
    sockets,        \* WebSocket.sockets: user id -> set of sockets (defaultdict(set))
    subscribed,     \* topics subscribed on the SUB socket of WebSocket._zmq_stream
    nfailed,        \* history: AUTH FAILED frames sent on the connection
    out,            \* frames written by the last handler, in order: <<socket, frame>>
    lastOp,         \* the last handler that ran, its argument and whether it raised
    now,            \* the clock, in minutes
    issued          \* the token the browser last got from /socket_auth_token, if any

wsvars == <<status, authenticated, auth_failures, user_id, sockets, subscribed,
            nfailed, out, lastOp, now, issued>>

VARIABLES
    \* ---- configuration and principal of the request ----
    strict,         \* cfg["security.strict"]
    use_webhook,    \* cfg["security.slack.enabled"]
    policy,         \* the access policies of the mapped class
    sessKind,       \* "VerifiedSession" (models.py) or "DBSession" (handlers/base.py)
    \* ---- database and session ----
    db,             \* committed rows: id -> owner, or Absent
    tx,             \* the rows as the session's open transaction sees them
    pend,           \* state of each object in the session:
                    \*   "none", "new", "clean", "dirty", "deleted"
    obj,            \* owner attribute of the in-memory object
    nextId,         \* next value of the primary key sequence
    lastCommit      \* what the last commit() did (reset by any other operation)

dbvars == <<strict, use_webhook, policy, sessKind, db, tx, pend, obj, nextId,
            lastCommit>>

VARIABLES
    \* ---- migration gate of an API process (services/app/app.py) ----
    mgr,            \* the migration manager as the process finds it:
                    \*   "down", "not_migrated", "migrated", "no_key"
    gpc,            \* "polling", "listening" (port bound) or "crashed"
    timeout,        \* the wait before the next poll, in seconds
    polled,         \* history: what each call of migrated_db returned
    slept           \* history: the waits so far

gatevars == <<mgr, gpc, timeout, polled, slept>>

VARIABLES
    \* ---- access policies (app/models.py, UserAccessControl and subclasses) ----
    principal,      \* user_or_token: [kind, id, created_by_id, is_admin]
    cls_policy,     \* getattr(cls, mode) of the mapped class that is queried
    owners,         \* item id -> ids of the rows its relationship chain ends in
    parent,         \* item id -> id of its related row, or NoRow (NULL foreign key)
    rel_logic,      \* getattr(join_target, mode) of the related class
    rel_owners,     \* related row id -> ids of the rows its chain ends in
    grants,         \* table -> ids the custom query generator returns
    accOp           \* the last call and what it returned

accvars == <<principal, cls_policy, owners, parent, rel_logic, rel_owners, grants,
             accOp>>

VARIABLES
    \* ---- one API request (app/access.py, app/handlers/base.py) ----
    recent,         \* len(token_request_times[token_id]) for the one token
    request,        \* the last request: header, token row, cookie user, handler outcome
    response        \* what was answered, whether the handler ran and for whom

httpvars == <<recent, request, response>>

\* the subsystems beyond the websocket server, the session and the gate
\* request-scoped sessions: each request's position, the value of
\* session_context_id in its task, DBSession's registry, the ids handed out,
\* the last operation on a session (by whom, on whose), and who committed
\* whose changes
VARIABLES rpc, ctx, registry, uuid, sessOp, committed
reqvars == <<rpc, ctx, registry, uuid, sessOp, committed>>
\* the message bus: how many messages each sender has emitted, the PULL
\* socket's incoming queue, the SUB socket's incoming queue, what was written
\* to the subscriber's websocket, and the last call of Flow.push
VARIABLES emitted, feed_in, feed_out, sock_out, lastPush
flowvars == <<emitted, feed_in, feed_out, sock_out, lastPush>>
\* the supervisor configuration step (tools/setup_services.py): the input of
\* one call of copy_supervisor_configs and what the call did
VARIABLES supIn, supOut
supvars == <<supIn, supOut>>
\* the migration manager (services/migration_manager): whether migrations
\* exist on disk, what "alembic current" finds, whether "alembic upgrade head"
\* would succeed, the process's position and what its startup did, the
\* timeout_cache of migration_status, the clock, the last inspection and the
\* last GET /
VARIABLES mig_exist, dbState, migrateOk, mpc, boot, mcache, lastrun, mnow, lastInspect, lastGet
migvars == <<mig_exist, dbState, migrateOk, mpc, boot, mcache, lastrun, mnow, lastInspect, lastGet>>
\* AccessibleIfUserMatches(relationship_chain): the value passed to the
\* constructor, and what construction and a later compilation did
VARIABLES chainIn, chainOut
chainvars == <<chainIn, chainOut>>
extvars == <<accvars, httpvars, reqvars, flowvars, supvars, migvars, chainvars>>
coreVars == <<wsvars, dbvars, gatevars>>
\* what the actions of one of these subsystems leave alone
notAcc == <<coreVars, httpvars, reqvars, flowvars, supvars, migvars, chainvars>>
notHttp == <<coreVars, accvars, reqvars, flowvars, supvars, migvars, chainvars>>
notReq == <<coreVars, accvars, httpvars, flowvars, supvars, migvars, chainvars>>
notFlow == <<coreVars, accvars, httpvars, reqvars, supvars, migvars, chainvars>>
notSup == <<coreVars, accvars, httpvars, reqvars, flowvars, migvars, chainvars>>
notMig == <<coreVars, accvars, httpvars, reqvars, flowvars, supvars, chainvars>>
notChain == <<coreVars, accvars, httpvars, reqvars, flowvars, supvars, migvars>>

vars == <<wsvars, dbvars, gatevars, extvars>>

(***************************************************************************)
(* Tokens.  A JWT is modelled by what jwt.decode looks at: the signature   *)
(* (made with the shared secret or not), the exp claim, and the one claim  *)
(* that names the user, under the key the issuer chose.                    *)
(***************************************************************************)
ClaimKeys == {"user_id", "username"}

\* jwt.encode({'exp': utcnow() + timedelta(minutes=15), 'username': str(user_id)}, secret)
SocketAuthToken(u, t) ==
    [sig |-> "secret", exp |-> t + TokenTTL, key |-> "username", val |-> u]

\* what a client can put on the wire at time t: any key, any user, expired or
\* not, signed with the server's secret or with another one
ClientTokens(t) ==
    [sig : {"secret", "other"}, exp : {t, t + TokenTTL}, key : ClaimKeys,
     val : Users \cup {""}]

\* jwt.decode(auth_token, secret, algorithms=["HS256"]) followed by
\* token_payload.get("user_id", None): the user id, or the exception raised
AuthResult(tok, t) ==
    IF tok.sig # "secret" THEN "DecodeError"
    ELSE IF tok.exp <= t THEN "ExpiredSignatureError"
    ELSE LET uid == IF tok.key = "user_id" THEN tok.val ELSE None
         IN IF uid = None \/ uid = "" THEN "DecodeError" ELSE uid

\* the test with "<" in place of "<="
MayRequestAuth_strict(af) == af < max_auth_fails

\* on_message: "if self.auth_failures <= self.max_auth_fails"
MayRequestAuth(af) == af <= max_auth_fails

(***************************************************************************)
(* Writes.  write_message on a closed connection raises                    *)
(* WebSocketClosedError, which ends the loop that called it.               *)
(***************************************************************************)
RECURSIVE Perms(_)
Perms(S) ==
    IF S = {} THEN {<<>>}
    ELSE UNION {{<<x>> \o p : p \in Perms(S \ {x})} : x \in S}

RECURSIVE WriteAll(_, _, _)
\* for socket in targets: socket.write_message(frame)
WriteAll(targets, frame, st) ==
    IF targets = <<>> THEN [out |-> <<>>, raised |-> FALSE]
    ELSE IF st[Head(targets)] # "open" THEN [out |-> <<>>, raised |-> TRUE]
    ELSE LET rest == WriteAll(Tail(targets), frame, st)
         IN [out |-> <<<<Head(targets), frame>>>> \o rest.out, raised |-> rest.raised]

RECURSIVE Flatten(_, _)
\* [socket for socket_list in cls.sockets.values() for socket in socket_list]
\* for one order of the keys; every set is iterated in some order
Flatten(keys, socks) ==
    IF keys = <<>> THEN {<<>>}
    ELSE {p \o q : p \in Perms(socks[Head(keys)]), q \in Flatten(Tail(keys), socks)}

AllSocketLists(socks) == UNION {Flatten(ks, socks) : ks \in Perms(Users)}

(***************************************************************************)
(* Websocket server: handlers                                              *)
(***************************************************************************)
WsInit ==
    /\ status = [s \in Sockets |-> "new"]
    /\ authenticated = [s \in Sockets |-> FALSE]
    /\ auth_failures = [s \in Sockets |-> 0]
    /\ user_id = [s \in Sockets |-> None]
    /\ sockets = [u \in Users |-> {}]
    /\ subscribed = {Star}
    /\ nfailed = [s \in Sockets |-> 0]
    /\ out = <<>>
    /\ lastOp = [op |-> "none", arg |-> None, raised |-> FALSE]
    /\ now = 0
    /\ issued = {}

\* open(): request_auth()
Open(s) ==
    /\ status[s] = "new"
    /\ status' = [status EXCEPT ![s] = "open"]
    /\ auth_failures' = [auth_failures EXCEPT ![s] = @ + 1]
    /\ out' = <<<<s, "AUTH REQUEST">>>>
    /\ lastOp' = [op |-> "open", arg |-> s, raised |-> FALSE]
    /\ UNCHANGED <<authenticated, user_id, sockets, subscribed, nfailed, now, issued>>
    /\ UNCHANGED <<dbvars, gatevars, extvars>>

\* on_message(auth_token): authenticate(), then request_auth() or give up
OnMessage(s, tok) ==
    /\ status[s] = "open"
    /\ LET r == AuthResult(tok, now) IN
       IF r \in Users
       THEN /\ user_id' = [user_id EXCEPT ![s] = r]
            /\ authenticated' = [authenticated EXCEPT ![s] = TRUE]
            /\ auth_failures' = [auth_failures EXCEPT ![s] = 0]
            /\ subscribed' = IF sockets[r] = {} THEN subscribed \cup {r} ELSE subscribed
            /\ sockets' = [sockets EXCEPT ![r] = @ \cup {s}]
            /\ out' = <<<<s, "AUTH OK">>>>
            /\ UNCHANGED nfailed
       ELSE /\ nfailed[s] < MaxFails
            /\ nfailed' = [nfailed EXCEPT ![s] = @ + 1]
            /\ IF ~authenticated[s] /\ MayRequestAuth(auth_failures[s])
               THEN /\ auth_failures' = [auth_failures EXCEPT ![s] = @ + 1]
                    /\ out' = <<<<s, "AUTH FAILED">>, <<s, "AUTH REQUEST">>>>
               ELSE /\ out' = <<<<s, "AUTH FAILED">>>>
                    /\ UNCHANGED auth_failures
            /\ UNCHANGED <<user_id, authenticated, subscribed, sockets>>
    /\ lastOp' = [op |-> "message", arg |-> s, raised |-> FALSE]
    /\ UNCHANGED <<status, now, issued>>
    /\ UNCHANGED <<dbvars, gatevars, extvars>>

\* on_close()
OnClose(s) ==
    /\ status[s] = "open"
    /\ status' = [status EXCEPT ![s] = "closed"]
    /\ IF user_id[s] # None
       THEN LET left == sockets[user_id[s]] \ {s} IN
            /\ sockets' = [sockets EXCEPT ![user_id[s]] = left]
            /\ subscribed' = IF left = {} THEN subscribed \ {user_id[s]} ELSE subscribed
       ELSE UNCHANGED <<sockets, subscribed>>
    /\ out' = <<>>
    /\ lastOp' = [op |-> "close", arg |-> s, raised |-> FALSE]
    /\ UNCHANGED <<authenticated, auth_failures, user_id, nfailed, now, issued>>
    /\ UNCHANGED <<dbvars, gatevars, extvars>>

\* every open connection, registered or not
BroadcastTargets_open(k, socks) ==
    Perms({s \in Sockets : status[s] = "open"})

\* the lists broadcast(data) may walk for routing key k
BroadcastTargets(k, socks) ==
    IF k = Star THEN AllSocketLists(socks) ELSE Perms(socks[k])

\* stream.on_recv(WebSocket.broadcast): a bus message whose topic is subscribed
Broadcast(k) ==
    /\ k \in subscribed
    /\ \E targets \in BroadcastTargets(k, sockets) :
         LET w == WriteAll(targets, "payload", status) IN
         /\ out' = w.out
         /\ lastOp' = [op |-> "broadcast", arg |-> k, raised |-> w.raised]
    /\ UNCHANGED <<status, authenticated, auth_failures, user_id, sockets, subscribed,
                   nfailed, now, issued>>
    /\ UNCHANGED <<dbvars, gatevars, extvars>>

\* PeriodicCallback(WebSocket.heartbeat, 45000)
Heartbeat ==
    /\ \E targets \in AllSocketLists(sockets) :
         LET w == WriteAll(targets, "<3", status) IN
         /\ out' = w.out
         /\ lastOp' = [op |-> "heartbeat", arg |-> None, raised |-> w.raised]
    /\ UNCHANGED <<status, authenticated, auth_failures, user_id, sockets, subscribed,
                   nfailed, now, issued>>
    /\ UNCHANGED <<dbvars, gatevars, extvars>>

\* SocketAuthTokenHandler.get for the logged-in user u
IssueToken(u) ==
    /\ issued' = {SocketAuthToken(u, now)}
    /\ out' = <<>>
    /\ lastOp' = [op |-> "issue", arg |-> u, raised |-> FALSE]
    /\ UNCHANGED <<status, authenticated, auth_failures, user_id, sockets, subscribed,
                   nfailed, now>>
    /\ UNCHANGED <<dbvars, gatevars, extvars>>

Tick ==
    /\ now < MaxNow
    /\ now' = now + 1
    /\ out' = <<>>
    /\ lastOp' = [op |-> "tick", arg |-> None, raised |-> FALSE]
    /\ UNCHANGED <<status, authenticated, auth_failures, user_id, sockets, subscribed,
                   nfailed, issued>>
    /\ UNCHANGED <<dbvars, gatevars, extvars>>


(***************************************************************************)
(* Verified session: constants                                             *)
(***************************************************************************)
\* rows of one mapped class, by primary key (handed out by a sequence)
RowIds == 1..MaxRows
Owners == {"me", "other"}
Absent == "absent"
Modes == {"create", "read", "update", "delete"}

\* class attributes create/read/update/delete of the mapped class:
\* BaseMixin's defaults, and a class owned by a user (as Token is)
DefaultPolicy ==
    [create |-> "public", read |-> "public", update |-> "restricted", delete |-> "restricted"]
OwnerPolicy ==
    [create |-> "user_matches", read |-> "user_matches", update |-> "user_matches",
     delete |-> "user_matches"]
Policies == {DefaultPolicy, OwnerPolicy}

\* what requests.post(webhook_url, ...) can do
PostOutcomes == {"ok", "HTTPError", "ConnectionError"}

NoCommit ==
    [ran |-> FALSE, ev |-> <<>>, warnings |-> 0, calls |-> 0, raised |-> "no",
     created |-> {}, before |-> [r \in RowIds |-> Absent]]

\* the rows a policy's accessible-rows query returns for the principal of the
\* request (a user without "System admin"), by the owner stored in the row
Accessible(mode, owner) ==
    \/ policy[mode] = "public"
    \/ policy[mode] = "user_matches" /\ owner = "me"

Bucket(p, st) == {r \in RowIds : p[r] = st}

\* verify(): read_rows, updated_rows, deleted_rows, new_rows
Collection(mode, p) ==
    CASE mode = "read" -> Bucket(p, "clean")
      [] mode = "update" -> Bucket(p, "dirty")
      [] mode = "delete" -> Bucket(p, "deleted")
      [] mode = "create" -> Bucket(p, "new")

\* what a query issued through DBSession() sees: the session's own transaction
\* when the session is DBSession(), committed rows only when it is another one
VerifierView(t) == IF sessKind = "DBSession" THEN t ELSE db

\* bulk_verify: ids of the collection that the outer join finds in the table
\* and not among the accessible ids
Inaccessible(mode, coll, view) ==
    {r \in coll : view[r] # Absent /\ ~Accessible(mode, view[r])}

\* handle_inaccessible raising whatever security.strict says
handle_inaccessible_always(post) ==
    [warnings |-> IF use_webhook THEN (IF post = "HTTPError" THEN 1 ELSE 0) ELSE 1,
     raised |-> IF use_webhook /\ post = "ConnectionError" THEN "ConnectionError"
                ELSE "AccessError"]

\* handle_inaccessible: the warnings it emits and what it raises
handle_inaccessible(post) ==
    [warnings |-> IF use_webhook THEN (IF post = "HTTPError" THEN 1 ELSE 0) ELSE 1,
     raised |-> IF use_webhook /\ post = "ConnectionError" THEN "ConnectionError"
                ELSE IF strict THEN "AccessError" ELSE "no"]

\* verify() leaving the delete check until after the flush
PreFlushModes_late == <<"read", "update">>

\* the modes verify() checks before self.flush(), in order, and after it
PreFlushModes == <<"read", "update", "delete">>
PostFlushModes == <<"create">>

RECURSIVE VerifyModes(_, _, _, _, _)
\* bulk_verify for each mode in turn, until one raises; colls are the
\* collections computed when verify() started
VerifyModes(modes, colls, view, posts, acc) ==
    IF modes = <<>> \/ acc.raised # "no" THEN acc
    ELSE LET m == Head(modes)
             bad == Inaccessible(m, colls[m], view)
             h == handle_inaccessible(posts[m])
             acc1 == IF bad = {}
                     THEN [acc EXCEPT !.ev = Append(@, m)]
                     ELSE [acc EXCEPT !.ev = Append(@, m),
                                      !.warnings = @ + h.warnings,
                                      !.calls = @ + 1,
                                      !.raised = h.raised]
         IN VerifyModes(Tail(modes), colls, view, posts, acc1)

\* Session.flush(): INSERT, UPDATE and DELETE inside the open transaction
FlushTx(p, o, t) ==
    [r \in RowIds |->
        IF p[r] \in {"new", "dirty"} THEN o[r]
        ELSE IF p[r] = "deleted" THEN Absent
        ELSE t[r]]
\* the attribute of the objects left in the session after a flush
FlushObj(p, o) == [r \in RowIds |-> IF p[r] = "deleted" THEN "me" ELSE o[r]]
FlushPend(p) ==
    [r \in RowIds |->
        IF p[r] \in {"new", "dirty"} THEN "clean"
        ELSE IF p[r] = "deleted" THEN "none"
        ELSE p[r]]

\* the webhook is posted to for mode m in a commit() that starts now (if no
\* earlier call raises): the mode's collection has an inaccessible row
Consulted(m) ==
    /\ use_webhook
    /\ Inaccessible(m, Collection(m, pend),
                    VerifierView(IF m = "create" THEN FlushTx(pend, obj, tx) ELSE tx)) # {}

\* what the webhook does at each call of a commit ("ok" stands for the calls
\* that are not made)
PostChoices ==
    {p \in [Modes -> PostOutcomes] : \A m \in Modes : ~ Consulted(m) => p[m] = "ok"}

(***************************************************************************)
(* Verified session: operations                                            *)
(***************************************************************************)
DbInit ==
    /\ strict \in BOOLEAN
    /\ use_webhook \in BOOLEAN
    /\ policy \in Policies
    /\ sessKind \in {"VerifiedSession", "DBSession"}
    \* an empty table, or one row that another user committed earlier
    /\ nextId \in {1, 2}
    /\ db = [r \in RowIds |-> IF r < nextId THEN "other" ELSE Absent]
    /\ tx = db
    /\ pend = [r \in RowIds |-> "none"]
    /\ obj = [r \in RowIds |-> "me"]
    /\ lastCommit = NoCommit

cfgvars == <<strict, use_webhook, policy, sessKind>>

\* session.add(Row(owner=o))
Add(o) ==
    /\ nextId <= MaxRows
    /\ pend' = [pend EXCEPT ![nextId] = "new"]
    /\ obj' = [obj EXCEPT ![nextId] = o]
    /\ nextId' = nextId + 1
    /\ lastCommit' = NoCommit
    /\ UNCHANGED <<cfgvars, db, tx>>
    /\ UNCHANGED <<wsvars, gatevars, extvars>>

\* a query or get() that loads row r into the identity map
Load(r) ==
    /\ pend[r] = "none"
    /\ tx[r] # Absent
    /\ pend' = [pend EXCEPT ![r] = "clean"]
    /\ obj' = [obj EXCEPT ![r] = tx[r]]
    /\ lastCommit' = NoCommit
    /\ UNCHANGED <<cfgvars, db, tx, nextId>>
    /\ UNCHANGED <<wsvars, gatevars, extvars>>

\* row.owner = o on a loaded row
Modify(r, o) ==
    /\ pend[r] \in {"clean", "dirty"}
    /\ o # obj[r]
    /\ pend' = [pend EXCEPT ![r] = IF o = tx[r] THEN "clean" ELSE "dirty"]
    /\ obj' = [obj EXCEPT ![r] = o]
    /\ lastCommit' = NoCommit
    /\ UNCHANGED <<cfgvars, db, tx, nextId>>
    /\ UNCHANGED <<wsvars, gatevars, extvars>>

\* session.delete(row) on a loaded row
Delete(r) ==
    /\ pend[r] \in {"clean", "dirty"}
    /\ pend' = [pend EXCEPT ![r] = "deleted"]
    /\ obj' = [obj EXCEPT ![r] = tx[r]]
    /\ lastCommit' = NoCommit
    /\ UNCHANGED <<cfgvars, db, tx, nextId>>
    /\ UNCHANGED <<wsvars, gatevars, extvars>>

\* session.flush() called by the handler before it commits
Flush ==
    /\ \E r \in RowIds : pend[r] \in {"new", "dirty", "deleted"}
    /\ tx' = FlushTx(pend, obj, tx)
    /\ pend' = FlushPend(pend)
    /\ obj' = FlushObj(pend, obj)
    /\ lastCommit' = NoCommit
    /\ UNCHANGED <<cfgvars, db, nextId>>
    /\ UNCHANGED <<wsvars, gatevars, extvars>>

\* _VerifiedSession.commit() / BaseHandler.verify_and_commit():
\* verify(), then the session's own commit()
Commit(posts) ==
    LET colls == [m \in Modes |-> Collection(m, pend)]
        start == [NoCommit EXCEPT !.ran = TRUE, !.created = colls["create"], !.before = db]
        pre == VerifyModes(PreFlushModes, colls, VerifierView(tx), posts, start)
        ftx == FlushTx(pend, obj, tx)
        fpend == FlushPend(pend)
        flushed == [pre EXCEPT !.ev = Append(@, "flush")]
        post == VerifyModes(PostFlushModes, colls, VerifierView(ftx), posts, flushed)
    IN
    /\ IF pre.raised # "no"
       THEN /\ lastCommit' = pre
            /\ UNCHANGED <<db, tx, pend, obj>>
       ELSE IF post.raised # "no"
       THEN /\ lastCommit' = post
            /\ tx' = ftx
            /\ pend' = fpend
            /\ obj' = FlushObj(pend, obj)
            /\ UNCHANGED db
       ELSE /\ lastCommit' = [post EXCEPT !.ev = Append(@, "commit")]
            /\ tx' = ftx
            /\ db' = ftx
            /\ pend' = fpend
            /\ obj' = FlushObj(pend, obj)
    /\ UNCHANGED <<cfgvars, nextId>>
    /\ UNCHANGED <<wsvars, gatevars, extvars>>

\* the request ends: the session is closed (DBSession.remove() in on_finish,
\* or the exit of "with VerifiedSession(user) as session"), which rolls back
\* what was not committed; the next request starts with an empty session
Close ==
    /\ tx' = db
    /\ pend' = [r \in RowIds |-> "none"]
    /\ obj' = [r \in RowIds |-> "me"]
    /\ lastCommit' = NoCommit
    /\ UNCHANGED <<cfgvars, db, nextId>>
    /\ UNCHANGED <<wsvars, gatevars, extvars>>

(***************************************************************************)
(* Migration gate: the poll loop an API process runs before app.listen     *)
(***************************************************************************)
MgrStates == {"down", "not_migrated", "migrated", "no_key"}

\* migrated_db without the except clause: a failed request is an exception
\* that ends the process, like the KeyError
migrated_db_uncaught(m) ==
    CASE m = "down" -> "KeyError"
      [] m = "not_migrated" -> "False"
      [] m = "migrated" -> "True"
      [] m = "no_key" -> "KeyError"

\* migrated_db(port): None when the request fails, status["migrated"] when the
\* manager answers, KeyError when the answer has no such key
migrated_db(m) ==
    CASE m = "down" -> "None"
      [] m = "not_migrated" -> "False"
      [] m = "migrated" -> "True"
      [] m = "no_key" -> "KeyError"

\* a loop that only goes on for an explicit False
LoopContinues_false(r) == r = "False"

\* "while not migrated_db(port)": the loop goes on for None and False
LoopContinues(r) == r \in {"None", "False"}

Max(a, b) == IF a >= b THEN a ELSE b

\* timeout = max(timeout * 2, 30)
NextTimeout(t) == Max(t * 2, 30)

GateInit ==
    /\ mgr \in MgrStates
    /\ gpc = "polling"
    /\ timeout = 1
    /\ polled = <<>>
    /\ slept = <<>>

\* the session and the websocket server while the model looks at the gate
GateIdle ==
    /\ mgr = "migrated" /\ gpc = "polling" /\ timeout = 1
    /\ polled = <<>> /\ slept = <<>>

\* one test of the loop condition that sends the process to sleep:
\* log, time.sleep(timeout), timeout = max(timeout * 2, 30)
PollAndWait ==
    /\ gpc = "polling"
    /\ Len(polled) < MaxPolls
    /\ LoopContinues(migrated_db(mgr))
    /\ polled' = Append(polled, migrated_db(mgr))
    /\ slept' = Append(slept, timeout)
    /\ timeout' = NextTimeout(timeout)
    /\ UNCHANGED <<mgr, gpc>>
    /\ UNCHANGED <<wsvars, dbvars, extvars>>

\* the test of the loop condition that ends the loop: app.listen(port)
PollAndListen ==
    /\ gpc = "polling"
    /\ ~LoopContinues(migrated_db(mgr))
    /\ migrated_db(mgr) # "KeyError"
    /\ polled' = Append(polled, migrated_db(mgr))
    /\ gpc' = "listening"
    /\ UNCHANGED <<mgr, timeout, slept>>
    /\ UNCHANGED <<wsvars, dbvars, extvars>>

\* status["migrated"] raises KeyError: the process dies before it listens
PollAndCrash ==
    /\ gpc = "polling"
    /\ migrated_db(mgr) = "KeyError"
    /\ polled' = Append(polled, "KeyError")
    /\ gpc' = "crashed"
    /\ UNCHANGED <<mgr, timeout, slept>>
    /\ UNCHANGED <<wsvars, dbvars, extvars>>

\* the migration manager starts, stops, migrates, or something else answers
MgrChange(m) ==
    /\ m # mgr
    /\ mgr' = m
    /\ UNCHANGED <<gpc, timeout, polled, slept>>
    /\ UNCHANGED <<wsvars, dbvars, extvars>>


\* the session while the model looks at another subsystem
DbIdle ==
    /\ strict = TRUE /\ use_webhook = FALSE /\ policy = DefaultPolicy
    /\ sessKind = "VerifiedSession"
    /\ db = [r \in RowIds |-> Absent] /\ tx = db
    /\ pend = [r \in RowIds |-> "none"] /\ obj = [r \in RowIds |-> "me"]
    /\ nextId = 1 /\ lastCommit = NoCommit

(***************************************************************************)
(* Access policies.  A policy is evaluated to the set of row ids its       *)
(* statement returns; each class has a query_accessible_rows (used by      *)
(* is_accessible_by and bulk_verify) and a select_accessible_rows (used by *)
(* select and get_all), which are modelled side by side as the two values  *)
(* of `path`.                                                              *)
(***************************************************************************)
\* primary keys of the queried table, of the related table and of users
ItemIds == {1, 2}
RelIds == {1}
UserIds == {1, 2}
\* a NULL foreign key / created_by_id
NoRow == 0
\* Token.id is a string (uuid); it is modelled as a value no user id equals
TokenId == 3

Ids(tbl) == IF tbl = "item" THEN ItemIds ELSE RelIds

\* public, restricted, AccessibleIfUserMatches(chain),
\* AccessibleIfRelatedRowsAreAccessible(parent=mode), CustomUserAccessControl(f)
Public == [kind |-> "Public", members |-> <<>>]
Restricted == [kind |-> "Restricted", members |-> <<>>]
AccessibleIfUserMatches == [kind |-> "UserMatches", members |-> <<>>]
AccessibleIfRelatedRowsAreAccessible == [kind |-> "Related", members |-> <<>>]
CustomUserAccessControl == [kind |-> "Custom", members |-> <<>>]

\* ComposedAccessControl(*access_controls, logic=logic)
ComposedAccessControl(access_controls, logic) ==
    [kind |-> logic, members |-> access_controls]
\* UserAccessControl.__and__ / __or__
PolicyAnd(p, q) == ComposedAccessControl(<<p, q>>, "and")
PolicyOr(p, q) == ComposedAccessControl(<<p, q>>, "or")

\* the policies a related class may carry, and those of the queried class
RelAtoms == {Public, Restricted, AccessibleIfUserMatches, CustomUserAccessControl}
Atoms == RelAtoms \cup {AccessibleIfRelatedRowsAreAccessible}
Composed ==
    {ComposedAccessControl(ms, l) :
        ms \in {<<a>> : a \in Atoms} \cup {<<a, b>> : a, b \in Atoms},
        l \in {"and", "or"}}
ClsPolicies == Atoms \cup Composed

\* the kinds of atom a policy is built from
KindsOf(pol) ==
    IF pol.members = <<>> THEN {pol.kind}
    ELSE {pol.members[i].kind : i \in DOMAIN pol.members}

\* is_admin: "System admin" in self.permissions
is_admin(p) == p.is_admin

\* UserAccessControl.user_id_from_user_or_token
user_id_from_user_or_token_own(p) ==
    IF p.kind \in {"User", "Token"} THEN [err |-> "no", id |-> p.id]
    ELSE [err |-> "ValueError", id |-> NoRow]

user_id_from_user_or_token(p) ==
    IF p.kind = "User" THEN [err |-> "no", id |-> p.id]
    ELSE IF p.kind = "Token" THEN [err |-> "no", id |-> p.created_by_id]
    ELSE [err |-> "ValueError", id |-> NoRow]

\* the rows whose chain of JOINs ends in a row with id = uid
ChainEnds(tbl, r) == IF tbl = "item" THEN owners[r] ELSE rel_owners[r]

\* base.join(relationship.class_attribute).join(accessible_related_rows, ...):
\* inner joins, a row without a related row drops out
RelatedJoin(r, accessible_related) ==
    parent[r] # NoRow /\ parent[r] \in accessible_related

\* "or": outer joins and or_(col.isnot(None) for the members that were not
\* skipped); with every member skipped the filter is empty
OrOfMembers(members, sets, all) ==
    LET kept == {i \in DOMAIN members : members[i].kind # "Public"}
    IN IF kept = {} THEN all ELSE UNION {sets[i] : i \in kept}

\* "and": an inner join per member that was not skipped
AndOfMembers(members, sets, all) ==
    {r \in all : \A i \in DOMAIN members :
                    members[i].kind # "Public" => r \in sets[i]}

\* CustomUserAccessControl with columns given: query.with_entities(*columns)
\* keeps the generated rows; sa.select(*columns).select_from(stmt.subquery())
\* selects the columns of the table beside the subquery, a cartesian product
CustomColumns(path, cols, G, all) ==
    IF path = "select" /\ cols THEN (IF G = {} THEN {} ELSE all) ELSE G

RECURSIVE accessible_rows(_, _, _, _, _)
\* pol.query_accessible_rows / pol.select_accessible_rows (cls=tbl, user_or_token=p,
\* columns given or not): the ids of the rows the statement returns
accessible_rows(path, pol, tbl, p, cols) ==
    CASE pol.kind = "Public" -> Ids(tbl)
      [] pol.kind = "Restricted" -> IF is_admin(p) THEN Ids(tbl) ELSE {}
      [] pol.kind = "UserMatches" ->
            IF is_admin(p) THEN Ids(tbl)
            ELSE {r \in Ids(tbl) : user_id_from_user_or_token(p).id \in ChainEnds(tbl, r)}
      [] pol.kind = "Related" ->
            IF rel_logic.kind = "Public" THEN Ids(tbl)
            ELSE LET acc == accessible_rows(path, rel_logic, "rel", p, TRUE)
                 IN {r \in Ids(tbl) : RelatedJoin(r, acc)}
      [] pol.kind = "Custom" -> CustomColumns(path, cols, grants[tbl], Ids(tbl))
      [] pol.kind \in {"and", "or"} ->
            LET sets == [i \in DOMAIN pol.members |->
                            accessible_rows(path, pol.members[i], tbl, p, TRUE)]
            IN IF pol.kind = "and"
               THEN AndOfMembers(pol.members, sets, Ids(tbl))
               ELSE OrOfMembers(pol.members, sets, Ids(tbl))

\* BaseMixin.select / query_records_accessible_by: the isinstance check
IsUserOrToken(p) == p.kind \in {"User", "Token"}

\* what evaluating the policy raises for principal p, "no" if nothing:
\* the isinstance check of the entry point, then is_admin on the principal
\* and user_id_from_user_or_token
Raises(entry, pol, p) ==
    IF entry = "select" /\ ~ IsUserOrToken(p) THEN "ValueError"
    ELSE IF pol.kind = "UserMatches" /\ ~ IsUserOrToken(p) THEN "AttributeError"
    ELSE "no"

\* principals: users and tokens, admins or not, and current_user = None
Principals ==
    [kind : {"User"}, id : UserIds, created_by_id : {NoRow}, is_admin : BOOLEAN]
    \cup [kind : {"Token"}, id : {TokenId}, created_by_id : UserIds \cup {NoRow},
          is_admin : BOOLEAN]
    \cup [kind : {"None"}, id : {NoRow}, created_by_id : {NoRow}, is_admin : {FALSE}]

NoAccOp == [op |-> "none", row |-> NoRow, rows |-> {}, ok |-> FALSE, raised |-> "no"]

\* the data a policy does not look at is left at one value
AccInputs(pols, prins) ==
    /\ cls_policy \in pols
    /\ principal \in prins
    /\ owners \in [ItemIds -> SUBSET UserIds]
    /\ "UserMatches" \notin KindsOf(cls_policy) => owners = [r \in ItemIds |-> {}]
    /\ parent \in [ItemIds -> RelIds \cup {NoRow}]
    /\ rel_logic \in RelAtoms
    /\ "Related" \notin KindsOf(cls_policy) =>
            parent = [r \in ItemIds |-> NoRow] /\ rel_logic = Public
    /\ rel_owners \in [RelIds -> SUBSET UserIds]
    /\ ("Related" \in KindsOf(cls_policy) /\ rel_logic.kind = "UserMatches")
            \/ rel_owners = [r \in RelIds |-> {}]
    /\ grants \in [{"item", "rel"} -> SUBSET ItemIds]
    /\ grants["rel"] \subseteq RelIds
    /\ "Custom" \notin KindsOf(cls_policy) => grants["item"] = {}
    /\ ("Related" \in KindsOf(cls_policy) /\ rel_logic.kind = "Custom")
            \/ grants["rel"] = {}
    /\ accOp = NoAccOp

\* the policy algebra: every policy, a user who is an admin or not
AccInit ==
    AccInputs(ClsPolicies,
              {p \in Principals : p.kind = "User" /\ p.id = 1})

\* the effective user id: AccessibleIfUserMatches, every principal
UidInit == AccInputs({AccessibleIfUserMatches}, Principals)

AccIdle ==
    /\ cls_policy = Public
    /\ principal = [kind |-> "User", id |-> 1, created_by_id |-> NoRow, is_admin |-> FALSE]
    /\ owners = [r \in ItemIds |-> {}] /\ parent = [r \in ItemIds |-> NoRow]
    /\ rel_logic = Public /\ rel_owners = [r \in RelIds |-> {}]
    /\ grants = [t \in {"item", "rel"} |-> {}]
    /\ accOp = NoAccOp

accInputs == <<principal, cls_policy, owners, parent, rel_logic, rel_owners, grants>>

\* cls.get_all(user_or_token, mode): session.scalars(cls.select(...)).all()
GetAll ==
    /\ LET e == Raises("select", cls_policy, principal) IN
       accOp' = [op |-> "get_all", row |-> NoRow, ok |-> FALSE, raised |-> e,
                 rows |-> IF e # "no" THEN {}
                          ELSE accessible_rows("select", cls_policy, "item",
                                               principal, FALSE)]
    /\ UNCHANGED accInputs
    /\ UNCHANGED notAcc

\* row.is_accessible_by(user_or_token, mode): count of
\* query_accessible_rows(cls, user_or_token).where(cls.id == self.id) > 0
IsAccessibleBy(r) ==
    /\ LET e == Raises("is_accessible_by", cls_policy, principal) IN
       accOp' = [op |-> "is_accessible_by", row |-> r, rows |-> {}, raised |-> e,
                 ok |-> /\ e = "no"
                        /\ r \in accessible_rows("query", cls_policy, "item",
                                                 principal, FALSE)]
    /\ UNCHANGED accInputs
    /\ UNCHANGED notAcc

(***************************************************************************)
(* One API request: auth_or_token, the handler method, and tornado's       *)
(* handling of what it raises (send_error -> BaseHandler.write_error ->    *)
(* BaseHandler.error).                                                     *)
(***************************************************************************)
\* if len(token_request_times[token_id]) >= 100
RateLimit == 100

\* the Token row Token.query.get(token_id) finds, if any: the state of the
\* user that created it (created_by_id is nullable) and the token's ACLs
TokenRows ==
    [found : {TRUE}, created_by : {"active", "expired", "none"}, is_admin : BOOLEAN]
    \cup [found : {FALSE}, created_by : {"none"}, is_admin : {FALSE}]
\* the Authorization header: absent, "token <id>", or something else
Headers == {"absent", "token", "other"}
\* get_current_user(): the user of the session cookie, or None
CookieUsers == {"None", "active", "expired"}
\* what the handler method does when it runs
Outcomes == {"success", "AccessError", "Exception"}

\* an exception instance, and the class object exc_info carries beside it
Exc(cls, code, reason) ==
    [cls |-> cls, status_code |-> code, reason |-> reason]
NoExc == Exc("no", 0, "")
\* AccessError.__init__: HTTPError.__init__(self, reason=reason, status_code=400)
AccessError(reason) == Exc("AccessError", 400, reason)
\* tornado.web.HTTPError(status_code, log_message)
HTTPError(code, reason) == Exc("HTTPError", code, reason)
\* any exception that is not an HTTPError: tornado answers 500
OtherError(cls) == Exc(cls, 500, cls)

\* User.is_active(): expiration_date is None or in the future
is_active(u) == u = "active"

\* isinstance(x, cls) where x is the class object taken from exc_info: a class
\* is an instance of type, never of AccessError
isinstance(x, cls) == x.isClass = FALSE /\ x.cls = cls

\* BaseHandler.error(message, status=...)
error(message, code) ==
    [status |-> code,
     body |-> [status |-> "error", message |-> message, data |-> "{}"]]

\* json_util.to_json is declared "async def": calling it returns a coroutine
\* object, not the JSON text
to_json(o) == [coroutine |-> TRUE, of |-> o]

\* RequestHandler.write(chunk): TypeError unless chunk is bytes, str or dict
write(chunk) ==
    IF chunk.coroutine THEN OtherError("TypeError") ELSE NoExc

\* BaseHandler.success(data): what self.write raises (NoExc if nothing), and
\* the response written
success(data) ==
    LET body == [status |-> "success", message |-> "absent", data |-> data]
    IN [exc |-> write(to_json(body)), reply |-> [status |-> 200, body |-> body]]

\* BaseHandler.write_error(status_code, exc_info=(err_cls, err, traceback))
write_error(status_code, err) ==
    LET err_cls == [isClass |-> TRUE, cls |-> err.cls]
        sc == IF isinstance(err_cls, "AccessError") THEN 401 ELSE status_code
    IN error(err.reason, sc)

\* RequestHandler._handle_request_exception / send_error: the status is the
\* HTTPError's status_code, 500 for anything else
send_error(err) == write_error(err.status_code, err)

\* rate_limit_exceeded(token_id): the verdict and the updated count
rate_limit_exceeded(n) ==
    IF n >= RateLimit THEN [exceeded |-> TRUE, n |-> n]
    ELSE [exceeded |-> FALSE, n |-> n + 1]

\* auth_or_token's wrapper up to the call of the method: what it raises (NoExc
\* if the method is called), the principal and the request count
auth_or_token(header, tok, cookie, n) ==
    IF header = "token"
    THEN IF tok.found
         THEN IF tok.created_by = "none"
              THEN [exc |-> OtherError("AttributeError"), principal |-> "Token", n |-> n]
              ELSE IF ~ is_active(tok.created_by)
              THEN [exc |-> HTTPError(403, "User account expired"),
                    principal |-> "Token", n |-> n]
              ELSE IF ~ tok.is_admin /\ rate_limit_exceeded(n).exceeded
              THEN [exc |-> HTTPError(503, "API rate limit exceeded"),
                    principal |-> "Token", n |-> n]
              ELSE [exc |-> NoExc, principal |-> "Token",
                    n |-> IF tok.is_admin THEN n ELSE rate_limit_exceeded(n).n]
         ELSE [exc |-> HTTPError(401, "Unauthorized"), principal |-> "None", n |-> n]
    ELSE IF cookie = "None"
         THEN [exc |-> OtherError("AttributeError"), principal |-> "None", n |-> n]
         ELSE IF ~ is_active(cookie)
         THEN [exc |-> HTTPError(403, "User account expired"),
               principal |-> "User", n |-> n]
         ELSE [exc |-> NoExc, principal |-> "User", n |-> n]

NoRequest ==
    [header |-> "absent", tok |-> [found |-> FALSE, created_by |-> "none",
                                   is_admin |-> FALSE],
     cookie |-> "None", outcome |-> "success"]
NoResponse ==
    [sent |-> FALSE, ran |-> FALSE, principal |-> "None", exc |-> NoExc,
     reply |-> error("", 0)]

HttpInit ==
    /\ recent = 0
    /\ request = NoRequest
    /\ response = NoResponse

\* one request to a method decorated with @auth_or_token; what the method
\* does (outcome) only matters if it runs
Request(header, tok, cookie, outcome) ==
    LET a == auth_or_token(header, tok, cookie, recent)
        ran == a.exc = NoExc
        exc == IF ~ ran THEN a.exc
               ELSE IF outcome = "AccessError" THEN AccessError("Insufficient permissions.")
               ELSE IF outcome = "Exception" THEN OtherError("Exception")
               ELSE success("{}").exc
    IN /\ ran \/ outcome = "success"
       /\ header = "token" \/ tok = NoRequest.tok
       /\ header # "token" \/ cookie = "None"
       /\ request' = [header |-> header, tok |-> tok, cookie |-> cookie,
                      outcome |-> outcome]
       /\ recent' = a.n
       /\ response' = [sent |-> TRUE, ran |-> ran, principal |-> a.principal,
                       exc |-> exc,
                       reply |-> IF exc = NoExc THEN success("{}").reply
                                 ELSE send_error(exc)]
       /\ UNCHANGED notHttp

\* time passes: the oldest request time leaves the window
Expire ==
    /\ recent > 0
    /\ recent' = recent - 1
    /\ UNCHANGED <<request, response>>
    /\ UNCHANGED notHttp

HttpIdle == HttpInit


(***************************************************************************)
(* Request-scoped sessions: session_context_id, DBSession,                 *)
(* BaseHandler.prepare / on_finish.                                        *)
(***************************************************************************)
\* the requests that can be in flight together
Reqs == {1, 2}
\* how many ids uuid.uuid4() hands out in a run
MaxIds == 4
\* ContextVar("request_id", default=None): the value before any set()
NoId == 0
Keys == 0 .. MaxIds

\* the ContextVar's default, which every task reads until prepare has run
request_id_default(r) == NoId

\* session_context_id.get(): tornado runs each request's _execute coroutine
\* as an asyncio Task, which works on its own copy of the context, so get()
\* returns what this request's prepare set
session_context_id_get(r) == ctx[r]

\* a session object: the request that made it and whose changes are pending
NoSession == [made_by |-> NoId, pending |-> {}]
Session(r) == [made_by |-> r, pending |-> {}]

\* scoped_session.__call__: the registry's session for the current scope,
\* made by sessionmaker() on first use
DBSession(r) ==
    LET key == session_context_id_get(r)
    IN IF registry[key] = NoSession THEN Session(ctx[r]) ELSE registry[key]

\* the record of one operation on a session object
Op(r, op, sess) ==
    [by |-> ctx[r], op |-> op, made_by |-> sess.made_by, pending |-> sess.pending]

NoOp == [by |-> NoId, op |-> "none", made_by |-> NoId, pending |-> {}]

ReqInit ==
    /\ rpc = [r \in Reqs |-> "idle"]
    /\ ctx = [r \in Reqs |-> NoId]
    /\ registry = [k \in Keys |-> NoSession]
    /\ uuid = 1
    /\ sessOp = NoOp
    /\ committed = {}

ReqIdle == ReqInit

\* BaseHandler.prepare: session_context_id.set(uuid.uuid4().hex)
Prepare(r) ==
    /\ rpc[r] = "idle"
    /\ uuid <= MaxIds
    /\ ctx' = [ctx EXCEPT ![r] = uuid]
    /\ uuid' = uuid + 1
    /\ rpc' = [rpc EXCEPT ![r] = "running"]
    /\ UNCHANGED <<registry, sessOp, committed>>
    /\ UNCHANGED notReq

\* the handler method: DBSession().add(row)
ReqAdd(r) ==
    /\ rpc[r] = "running"
    /\ LET sess == DBSession(r)
           key == session_context_id_get(r)
       IN /\ registry' = [registry EXCEPT
                             ![key] = [sess EXCEPT !.pending = @ \cup {ctx[r]}]]
          /\ sessOp' = Op(r, "obtain", sess)
    /\ UNCHANGED <<rpc, ctx, uuid, committed>>
    /\ UNCHANGED notReq

\* verify_permissions: DBSession().flush()
ReqFlush(r) ==
    /\ rpc[r] = "running"
    /\ LET sess == DBSession(r)
           key == session_context_id_get(r)
       IN /\ registry' = [registry EXCEPT ![key] = sess]
          /\ sessOp' = Op(r, "flush", sess)
    /\ UNCHANGED <<rpc, ctx, uuid, committed>>
    /\ UNCHANGED notReq

\* verify_and_commit: DBSession().commit()
ReqCommit(r) ==
    /\ rpc[r] = "running"
    /\ LET sess == DBSession(r)
           key == session_context_id_get(r)
       IN /\ registry' = [registry EXCEPT ![key] = [sess EXCEPT !.pending = {}]]
          /\ sessOp' = Op(r, "commit", sess)
          /\ committed' = committed \cup {<<ctx[r], a>> : a \in sess.pending}
    /\ UNCHANGED <<rpc, ctx, uuid>>
    /\ UNCHANGED notReq

\* cls.get / cls.get_all: "with DBSession() as session:" closes the session
\* when the block is left, which drops what is pending in it
ReqQuery(r) ==
    /\ rpc[r] = "running"
    /\ LET sess == DBSession(r)
           key == session_context_id_get(r)
       IN /\ registry' = [registry EXCEPT ![key] = [sess EXCEPT !.pending = {}]]
          /\ sessOp' = Op(r, "close", sess)
    /\ UNCHANGED <<rpc, ctx, uuid, committed>>
    /\ UNCHANGED notReq

\* VerifiedSession(user_or_token): every call builds a scoped_session of its
\* own, whose empty registry makes a new session; the handler adds to it and
\* commits it
ReqVerified(r) ==
    /\ rpc[r] = "running"
    /\ LET sess == [Session(ctx[r]) EXCEPT !.pending = {ctx[r]}]
       IN /\ sessOp' = Op(r, "commit", sess)
          /\ committed' = committed \cup {<<ctx[r], a>> : a \in sess.pending}
    /\ UNCHANGED <<rpc, ctx, uuid, registry>>
    /\ UNCHANGED notReq

\* BaseHandler.on_finish: DBSession.remove() closes the current scope's
\* session, if there is one, and drops it from the registry; the request's
\* task ends
OnFinish(r) ==
    /\ rpc[r] = "running"
    /\ LET key == session_context_id_get(r)
       IN /\ registry' = [registry EXCEPT ![key] = NoSession]
          /\ sessOp' = IF registry[key] = NoSession THEN NoOp
                       ELSE Op(r, "remove", registry[key])
    /\ rpc' = [rpc EXCEPT ![r] = "idle"]
    /\ ctx' = [ctx EXCEPT ![r] = NoId]
    /\ UNCHANGED <<uuid, committed>>
    /\ UNCHANGED notReq

(***************************************************************************)
(* The message bus: Flow.push, the message proxy, WebSocket.broadcast.      *)
(***************************************************************************)
\* who sends on the bus: a handler process through Flow.push, and any other
\* process that connects a PUSH socket to the proxy's PULL socket
Senders == {"handler", "peer"}
\* how many messages each sender emits in a run
MaxMsgs == 3
\* the topics the websocket server's SUB socket holds: "*" from install_stream
\* and the id of the user whose socket is open
Subscribed == {Star, "1"}

\* str(user_id): a string
str(v) == [coroutine |-> FALSE, of |-> v]

\* m.encode("utf-8"): a coroutine object has no attribute encode
encode(m) ==
    IF m.coroutine THEN OtherError("AttributeError") ELSE NoExc

\* Flow.push(user_id, action_type, payload), uid being user_id: the frames are built with
\* to_json and encoded before send_multipart is reached; what the call raises
\* and what it puts on the PUSH socket
flow_push(uid, n) ==
    LET message == <<str(uid), to_json(n)>>
        raised == {encode(message[i]) : i \in 1 .. 2} \ {NoExc}
    IN IF raised # {}
       THEN [exc |-> CHOOSE e \in raised : TRUE, sent |-> <<>>]
       ELSE [exc |-> NoExc,
             sent |-> <<[from |-> "handler", n |-> n, key |-> uid]>>]

NoPush == [n |-> 0, key |-> Star, raised |-> FALSE]

FlowInit ==
    /\ emitted = [s \in Senders |-> 0]
    /\ feed_in = <<>>
    /\ feed_out = <<>>
    /\ sock_out = <<>>
    /\ lastPush = NoPush

FlowIdle == FlowInit

\* BaseHandler.push / push_all: self.flow.push(user_id, action, payload)
Push(k) ==
    /\ emitted["handler"] < MaxMsgs
    /\ LET n == emitted["handler"] + 1
           p == flow_push(k, n)
       IN /\ emitted' = [emitted EXCEPT !["handler"] = n]
          /\ feed_in' = feed_in \o p.sent
          /\ lastPush' = [n |-> n, key |-> k, raised |-> p.exc # NoExc]
    /\ UNCHANGED <<feed_out, sock_out>>
    /\ UNCHANGED notFlow

\* another PUSH socket connected to the proxy sends [topic, payload]
PeerSend(k) ==
    /\ emitted["peer"] < MaxMsgs
    /\ LET n == emitted["peer"] + 1
       IN /\ emitted' = [emitted EXCEPT !["peer"] = n]
          /\ feed_in' = Append(feed_in, [from |-> "peer", n |-> n, key |-> k])
    /\ UNCHANGED <<feed_out, sock_out, lastPush>>
    /\ UNCHANGED notFlow

\* zmq.proxy(feed_in, feed_out): the next message of the PULL socket goes out
\* on the PUB socket, which passes it to the SUB socket if its topic is
\* subscribed
Proxy ==
    /\ feed_in # <<>>
    /\ feed_in' = Tail(feed_in)
    /\ feed_out' = IF Head(feed_in).key \in Subscribed
                   THEN Append(feed_out, Head(feed_in)) ELSE feed_out
    /\ UNCHANGED <<emitted, sock_out, lastPush>>
    /\ UNCHANGED notFlow

\* stream.on_recv(WebSocket.broadcast): the next message of the SUB socket is
\* written to the open socket of user "1"
Relay ==
    /\ feed_out # <<>>
    /\ feed_out' = Tail(feed_out)
    /\ sock_out' = Append(sock_out, Head(feed_out))
    /\ UNCHANGED <<emitted, feed_in, lastPush>>
    /\ UNCHANGED notFlow

(***************************************************************************)
(* Supervisor configuration: tools/setup_services.py,                       *)
(* copy_supervisor_configs.                                                 *)
(***************************************************************************)
\* service directory names
ServiceNames == {"a", "b"}
\* the roots of cfg["services.paths"], in order
Roots == 1 .. 2

\* a value of services.disabled / services.enabled: the string "*" or a list
\* of names (None and [] are both the empty list after "or []")
ServiceSpecs ==
    [star : {FALSE}, names : SUBSET ServiceNames]
    \cup [star : {TRUE}, names : {{}}]

\* set().union(x): the names of a list, the one character of the string "*"
AsSet(x) == IF x.star THEN {Star} ELSE x.names

\* the loop over cfg["services.paths"]: services.update(...) on a dict, so a
\* name found under several roots keeps the path of the last of them
Discover(dirs) ==
    LET found == UNION {dirs[i] : i \in Roots}
    IN [s \in found |-> CHOOSE i \in Roots :
                           /\ s \in dirs[i]
                           /\ \A j \in Roots : s \in dirs[j] => j <= i]

\* Counter(services.keys()): every key of a dict is counted once
Counter(services) == [k \in DOMAIN services |-> 1]

\* services_to_run without the services.enabled names
services_to_run_no_enabled(services, disabled, enabled, failed) ==
    DOMAIN services \ ((IF disabled.star THEN DOMAIN services ELSE disabled.names)
                       \cup failed)

\* services_to_run: set(services.keys()).difference(disabled).union(enabled),
\* disabled holding the external services that could not be set up as well
services_to_run(services, disabled, enabled, failed) ==
    (DOMAIN services \ ((IF disabled.star THEN DOMAIN services ELSE disabled.names)
                        \cup failed))
    \cup (IF enabled.star THEN {} ELSE enabled.names)

NoSupOut == [ran |-> FALSE, exc |-> "none", written |-> {}, paths |-> <<>>]

\* copy_supervisor_configs(external_services): what it raises, the services
\* whose configuration is appended to supervisor.conf and the root each is
\* taken from
copy_supervisor_configs(dirs, disabled, enabled, failed, incompatible) ==
    LET services == Discover(dirs)
        counts == Counter(services)
        duplicates == {k \in DOMAIN counts : counts[k] > 1}
        both == AsSet(disabled) \cap AsSet(enabled)
        to_run == services_to_run(services, disabled, enabled, failed)
        kept == to_run \ incompatible
    IN IF duplicates # {}
       THEN [ran |-> TRUE, exc |-> "RuntimeError: duplicate", written |-> {},
             paths |-> <<>>]
       ELSE IF both # {}
       THEN [ran |-> TRUE, exc |-> "RuntimeError: both", written |-> {},
             paths |-> <<>>]
       ELSE IF ~ (to_run \subseteq DOMAIN services)
       THEN [ran |-> TRUE, exc |-> "KeyError", written |-> {}, paths |-> <<>>]
       ELSE [ran |-> TRUE, exc |-> "none", written |-> kept,
             paths |-> [s \in kept |-> services[s]]]

SupInit ==
    /\ supIn \in [dirs : [Roots -> SUBSET ServiceNames],
                  disabled : ServiceSpecs, enabled : ServiceSpecs,
                  failed : SUBSET ServiceNames,
                  incompatible : SUBSET ServiceNames]
    /\ supOut = NoSupOut

SupIdle ==
    /\ supIn = [dirs |-> [i \in Roots |-> {}],
                disabled |-> [star |-> FALSE, names |-> {}],
                enabled |-> [star |-> FALSE, names |-> {}],
                failed |-> {}, incompatible |-> {}]
    /\ supOut = NoSupOut

\* one run of the configuration step
CopySupervisorConfigs ==
    /\ ~ supOut.ran
    /\ supOut' = copy_supervisor_configs(supIn.dirs, supIn.disabled, supIn.enabled,
                                         supIn.failed, supIn.incompatible)
    /\ UNCHANGED supIn
    /\ UNCHANGED notSup

(***************************************************************************)
(* Migration manager: services/migration_manager/migration_manager.py.      *)
(***************************************************************************)
\* @timeout_cache(timeout=10)
CacheTimeout == 10
\* time.time() when the process starts: seconds since 1970, far above the
\* cache timeout; lastrun starts at 0
StartTime == 11
\* how far the clock runs
MaxClock == 24
\* what "alembic current --verbose" reports (booleans are written "True" and
\* "False", beside "None")
DbStates == {"head", "behind", "unstamped", "error"}
NoValue == "None"

\* migration_status(): the undecorated function
migration_status(exist, dbst) ==
    IF ~ exist THEN "True"
    ELSE IF dbst = "error" THEN "False"
    ELSE IF dbst = "unstamped" THEN "True"
    ELSE IF dbst = "head" THEN "True" ELSE "False"

\* timeout_cache.wrapped's test, read as "not younger than the timeout"
cache_expired_ge(toc, tic, cached) ==
    (toc - tic) >= CacheTimeout \/ cached = NoValue

\* timeout_cache.wrapped: (toc - tic) > self.timeout or self.cache is None
cache_expired(toc, tic, cached) ==
    (toc - tic) > CacheTimeout \/ cached = NoValue

\* timeout_cache.wrapped: the value returned, the new cache and lastrun, and
\* whether the function was run
wrapped(toc, tic, cached, exist, dbst) ==
    IF cache_expired(toc, tic, cached)
    THEN [value |-> migration_status(exist, dbst), lastrun |-> toc, ran |-> TRUE]
    ELSE [value |-> cached, lastrun |-> tic, ran |-> FALSE]

NoGet == [sent |-> FALSE, migrated |-> NoValue, inspected |-> FALSE, at |-> 0,
          previous |-> 0]
NoInspect == [at |-> 0, value |-> NoValue]

MigInit ==
    /\ mig_exist \in BOOLEAN
    /\ dbState \in DbStates
    /\ migrateOk \in BOOLEAN
    /\ mpc = "start"
    /\ boot = "none"
    /\ mcache = NoValue
    /\ lastrun = 0
    /\ mnow = StartTime
    /\ lastInspect = NoInspect
    /\ lastGet = NoGet

MigIdle ==
    /\ mig_exist = FALSE
    /\ dbState = "head"
    /\ migrateOk = TRUE
    /\ mpc = "start"
    /\ boot = "none"
    /\ mcache = NoValue
    /\ lastrun = 0
    /\ mnow = StartTime
    /\ lastInspect = NoInspect
    /\ lastGet = NoGet

\* __main__: if migrations_exist() and not migration_status(): migrate();
\* migrate() logs "Migration failed" on a non-zero return code and returns;
\* then make_app(), listen(port), IOLoop.start()
Startup ==
    /\ mpc = "start"
    /\ LET w == wrapped(mnow, lastrun, mcache, mig_exist, dbState)
           attempt == mig_exist /\ w.value = "False"
       IN /\ mcache' = IF mig_exist THEN w.value ELSE mcache
          /\ lastrun' = IF mig_exist THEN w.lastrun ELSE lastrun
          /\ lastInspect' = IF mig_exist THEN [at |-> mnow, value |-> w.value]
                            ELSE lastInspect
          /\ boot' = IF ~ attempt THEN "no migration"
                     ELSE IF migrateOk THEN "migrated" ELSE "migration failed"
          /\ dbState' = IF attempt /\ migrateOk THEN "head" ELSE dbState
    /\ mpc' = "listening"
    /\ UNCHANGED <<mig_exist, migrateOk, mnow, lastGet>>
    /\ UNCHANGED notMig

\* MainHandler.get: self.write({"migrated": migration_status()})
MigGet ==
    /\ mpc = "listening"
    /\ LET w == wrapped(mnow, lastrun, mcache, mig_exist, dbState)
       IN /\ mcache' = w.value
          /\ lastrun' = w.lastrun
          /\ lastInspect' = IF w.ran THEN [at |-> mnow, value |-> w.value]
                            ELSE lastInspect
          /\ lastGet' = [sent |-> TRUE, migrated |-> w.value, inspected |-> w.ran,
                         at |-> mnow, previous |-> lastInspect.at]
    /\ UNCHANGED <<mig_exist, dbState, migrateOk, mpc, boot, mnow>>
    /\ UNCHANGED notMig

\* a second passes
MigTick ==
    /\ mnow < MaxClock
    /\ mnow' = mnow + 1
    /\ UNCHANGED <<mig_exist, dbState, migrateOk, mpc, boot, mcache, lastrun,
                   lastInspect, lastGet>>
    /\ UNCHANGED notMig

\* the database changes under the manager: an operator migrates it by hand,
\* or a deployment adds a revision
DbChange(d) ==
    /\ mpc = "listening"
    /\ mig_exist
    /\ d \in {"head", "behind"}
    /\ d # dbState
    /\ dbState' = d
    /\ UNCHANGED <<mig_exist, migrateOk, mpc, boot, mcache, lastrun, mnow,
                   lastInspect, lastGet>>
    /\ UNCHANGED notMig

(***************************************************************************)
(* AccessibleIfUserMatches: the relationship chain (app/models.py).         *)
(***************************************************************************)
\* the characters a chain is written with, "." separating the names
ChainChars == {"a", "b", "."}
\* the longest chain value tried
MaxChain == 3
\* a value for relationship_chain: a string, or something that is not one
ChainValues ==
    [isStr : {TRUE}, chars : UNION {[1 .. n -> ChainChars] : n \in 0 .. MaxChain}]
    \cup {[isStr |-> FALSE, chars |-> <<>>]}

RECURSIVE split(_)
\* value.split("."): the pieces between the dots, one more than there are
\* dots, so the empty string gives one empty piece
split(chars) ==
    IF \A i \in DOMAIN chars : chars[i] # "."
    THEN <<chars>>
    ELSE LET d == CHOOSE i \in DOMAIN chars :
                     chars[i] = "." /\ \A j \in 1 .. (i - 1) : chars[j] # "."
         IN <<SubSeq(chars, 1, d - 1)>> \o split(SubSeq(chars, d + 1, Len(chars)))

\* the relationship_chain setter, called from __init__
set_relationship_chain(value) ==
    IF ~ value.isStr THEN [exc |-> "ValueError", key |-> <<>>]
    ELSE IF Len(split(value.chars)) < 1 THEN [exc |-> "ValueError", key |-> <<>>]
    ELSE [exc |-> "none", key |-> value.chars]

\* the mapped classes of the example: X.a leads to Y, Y.b leads to User
Relationships ==
    [X |-> [name |-> <<"a">>, to |-> "Y"],
     Y |-> [name |-> <<"b">>, to |-> "User"],
     User |-> [name |-> <<"none">>, to |-> "User"]]

RECURSIVE join_chain(_, _)
\* the loop over self.relationship_names: check_cls_for_attributes raises
\* TypeError for a name the class does not have
join_chain(cls, names) ==
    IF names = <<>> THEN "query"
    ELSE IF Head(names) # Relationships[cls].name THEN "TypeError"
    ELSE join_chain(Relationships[cls].to, Tail(names))

\* select_accessible_rows / query_accessible_rows of AccessibleIfUserMatches
\* for class X: the admin shortcut returns the public query before the chain
\* is looked at
compile_chain(key, admin) ==
    IF admin THEN "query" ELSE join_chain("X", split(key))

NoChainOut == [constructed |-> FALSE, exc |-> "none", key |-> <<>>,
               compiled |-> "no"]

ChainInit ==
    /\ chainIn \in ChainValues
    /\ chainOut = NoChainOut

ChainIdle ==
    /\ chainIn = [isStr |-> FALSE, chars |-> <<>>]
    /\ chainOut = NoChainOut

\* AccessibleIfUserMatches(value)
Construct ==
    /\ ~ chainOut.constructed
    /\ LET r == set_relationship_chain(chainIn)
       IN chainOut' = [constructed |-> TRUE, exc |-> r.exc, key |-> r.key,
                       compiled |-> "no"]
    /\ UNCHANGED chainIn
    /\ UNCHANGED notChain

\* X.get_all(user_or_token) with the policy as X's read policy
Compile(admin) ==
    /\ chainOut.constructed
    /\ chainOut.exc = "none"
    /\ chainOut.compiled = "no"
    /\ chainOut' = [chainOut EXCEPT !.compiled = compile_chain(chainOut.key, admin)]
    /\ UNCHANGED chainIn
    /\ UNCHANGED notChain

ExtIdle == AccIdle /\ HttpIdle /\ ReqIdle /\ FlowIdle /\ SupIdle /\ MigIdle /\ ChainIdle

CoreIdle == WsInit /\ DbIdle /\ GateIdle

InitAcc == AccInit /\ CoreIdle /\ HttpIdle /\ ReqIdle /\ FlowIdle /\ SupIdle /\ MigIdle /\ ChainIdle
InitUid == UidInit /\ CoreIdle /\ HttpIdle /\ ReqIdle /\ FlowIdle /\ SupIdle /\ MigIdle /\ ChainIdle
InitHttp == HttpInit /\ CoreIdle /\ AccIdle /\ ReqIdle /\ FlowIdle /\ SupIdle /\ MigIdle /\ ChainIdle
InitReq == ReqInit /\ CoreIdle /\ AccIdle /\ HttpIdle /\ FlowIdle /\ SupIdle /\ MigIdle /\ ChainIdle
InitFlow == FlowInit /\ CoreIdle /\ AccIdle /\ HttpIdle /\ ReqIdle /\ SupIdle /\ MigIdle /\ ChainIdle
InitSup == SupInit /\ CoreIdle /\ AccIdle /\ HttpIdle /\ ReqIdle /\ FlowIdle /\ MigIdle /\ ChainIdle
InitMig == MigInit /\ CoreIdle /\ AccIdle /\ HttpIdle /\ ReqIdle /\ FlowIdle /\ SupIdle /\ ChainIdle
InitChain == ChainInit /\ CoreIdle /\ AccIdle /\ HttpIdle /\ ReqIdle /\ FlowIdle /\ SupIdle /\ MigIdle

NextAcc ==
    \/ GetAll
    \/ \E r \in ItemIds : IsAccessibleBy(r)

\* one class, one principal: the listing and the per-row check
SpecAcc == InitAcc /\ [][NextAcc]_vars
\* AccessibleIfUserMatches for every kind of principal
SpecUid == InitUid /\ [][NextAcc]_vars

NextHttp ==
    \/ \E h \in Headers, t \in TokenRows, c \in CookieUsers, o \in Outcomes :
          Request(h, t, c, o)
    \/ Expire

\* requests to one @auth_or_token method, one after another
SpecHttp == InitHttp /\ [][NextHttp]_vars

NextReq ==
    \/ \E r \in Reqs : Prepare(r)
    \/ \E r \in Reqs : ReqAdd(r)
    \/ \E r \in Reqs : ReqFlush(r)
    \/ \E r \in Reqs : ReqCommit(r)
    \/ \E r \in Reqs : ReqQuery(r)
    \/ \E r \in Reqs : ReqVerified(r)
    \/ \E r \in Reqs : OnFinish(r)

\* requests in flight together, interleaved between any two session calls
SpecReq == InitReq /\ [][NextReq]_vars

NextFlow ==
    \/ \E k \in Users \cup {Star} : Push(k)
    \/ \E k \in Users \cup {Star} : PeerSend(k)
    \/ Proxy
    \/ Relay

\* senders, the proxy and the websocket server running side by side
SpecFlow == InitFlow /\ [][NextFlow]_vars

NextSup == CopySupervisorConfigs

\* copy_supervisor_configs over every configuration and directory layout
SpecSup == InitSup /\ [][NextSup]_vars

NextMig ==
    \/ Startup
    \/ MigGet
    \/ MigTick
    \/ \E d \in DbStates : DbChange(d)

\* one run of the migration manager and the requests it answers
SpecMig == InitMig /\ [][NextMig]_vars

NextChain ==
    \/ Construct
    \/ \E admin \in BOOLEAN : Compile(admin)

\* one policy object: its construction and its first use
SpecChain == InitChain /\ [][NextChain]_vars

InitWS == WsInit /\ DbIdle /\ GateIdle /\ ExtIdle
InitDB == DbInit /\ WsInit /\ GateIdle /\ ExtIdle
InitGate == GateInit /\ WsInit /\ DbIdle /\ ExtIdle

\* the websocket server with its clients and the bus
NextWS ==
    \/ \E s \in Sockets : Open(s)
    \/ \E s \in Sockets : \E tok \in ClientTokens(now) : OnMessage(s, tok)
    \/ \E s \in Sockets : OnClose(s)
    \/ \E k \in Users \cup {Star} : Broadcast(k)
    \/ Heartbeat

SpecWS == InitWS /\ [][NextWS]_vars

\* one browser: it gets a token from the endpoint and presents it, as time passes
NextTok ==
    \/ Tick
    \/ \E u \in Users : IssueToken(u)
    \/ Open("s1")
    \/ \E tok \in issued : OnMessage("s1", tok)
    \/ OnClose("s1")

SpecTok == InitWS /\ [][NextTok]_vars

\* one request after another on the verified session
NextDB ==
    \/ \E o \in Owners : Add(o)
    \/ \E r \in RowIds : Load(r)
    \/ \E r \in RowIds : \E o \in Owners : Modify(r, o)
    \/ \E r \in RowIds : Delete(r)
    \/ Flush
    \/ \E posts \in PostChoices : Commit(posts)
    \/ Close

SpecDB == InitDB /\ [][NextDB]_vars

\* an API process starting up while the migration manager comes and goes
NextGate ==
    \/ PollAndWait
    \/ PollAndListen
    \/ PollAndCrash
    \/ \E m \in MgrStates : MgrChange(m)

SpecGate == InitGate /\ [][NextGate]_vars

\* the API process is a running program: a poll that can be made is made
\* (time.sleep returns, requests.get returns or fails); the migration manager
\* is not obliged to do anything
GateFairness ==
    /\ WF_vars(PollAndWait)
    /\ WF_vars(PollAndListen)
    /\ WF_vars(PollAndCrash)

SpecGateLive == InitGate /\ [][NextGate]_vars /\ GateFairness

(***************************************************************************)
(* Properties                                                              *)
(***************************************************************************)
Written == {out[i][1] : i \in DOMAIN out}
Sent(s, frame) == \E i \in DOMAIN out : out[i] = <<s, frame>>
AuthenticatedAs(u) ==
    {s \in Sockets : status[s] = "open" /\ authenticated[s] /\ user_id[s] = u}
Before(ev, i, e) == \E j \in DOMAIN ev : j < i /\ ev[j] = e

\* C1: a commit() on a VerifiedSession in strict mode that had a row A the
\* principal may create and a later row B it may not create among its new rows
\* leaves neither of them in the committed database.
C1_CommitAtomicity ==
    ( /\ sessKind = "VerifiedSession" /\ strict /\ lastCommit.ran
      /\ \E a, b \in lastCommit.created :
            /\ a < b
            /\ Accessible("create", obj[a])
            /\ ~Accessible("create", obj[b]) )
    => \A r \in lastCommit.created : db[r] = Absent

C4_RolledBackOnRaise ==
    (lastCommit.ran /\ lastCommit.raised = "AccessError") => tx = db

\* C5: a bus message with routing key N is written to exactly the open sockets
\* currently authenticated as user N.
C5_TargetedRouting ==
    (lastOp.op = "broadcast" /\ lastOp.arg \in Users) =>
        /\ Written = AuthenticatedAs(lastOp.arg)
        /\ ~ lastOp.raised

\* C6: a bus message with routing key "*" is written to every socket that is
\* open when it is received, whatever user (if any) the socket belongs to.
C6_BroadcastAll ==
    (lastOp.op = "broadcast" /\ lastOp.arg = Star) =>
        \A s \in Sockets : status[s] = "open" => s \in Written

\* C7: a user id is subscribed on the SUB socket iff at least one open socket
\* is currently authenticated as that user; "*" is always subscribed.
C7_SubscriptionIff ==
    /\ Star \in subscribed
    /\ \A u \in Users : u \in subscribed <=> AuthenticatedAs(u) # {}

\* C8: the token the endpoint issues for user u carries exp = issue time + 15
\* minutes and u's id as the user_id claim, signed with the secret; presented
\* before exp it yields AUTH OK and registers the socket under u, presented
\* after exp it yields AUTH FAILED and the socket is registered under no user.
C8_TokenLifetime ==
    \A tok \in issued :
        /\ lastOp.op = "issue" =>
             tok = [sig |-> "secret", exp |-> now + TokenTTL, key |-> "user_id",
                    val |-> lastOp.arg]
        /\ lastOp.op = "message" =>
             IF now < tok.exp
             THEN /\ out = <<<<"s1", "AUTH OK">>>>
                  /\ user_id["s1"] = tok.val
                  /\ "s1" \in sockets[tok.val]
             ELSE /\ Sent("s1", "AUTH FAILED")
                  /\ \A u \in Users : "s1" \notin sockets[u]

C10_GateSafety ==
    /\ gpc = "listening" => (polled # <<>> /\ polled[Len(polled)] = "True")
    /\ \A i \in DOMAIN polled :
         (i < Len(polled) \/ gpc # "listening") => polled[i] # "True"
    /\ (polled # <<>> /\ polled[Len(polled)] = "KeyError") => gpc = "crashed"

\* the process listens after polls that found the manager down and not migrated
C10_Witness ==
    /\ gpc = "listening"
    /\ \E i, j \in DOMAIN polled : polled[i] = "None" /\ polled[j] = "False"

Min(a, b) == IF a <= b THEN a ELSE b

\* C11: the waits between successive polls are 1, 2, 4, ... seconds, each the
\* double of the one before, and never more than 30 seconds.
C11_Backoff ==
    \A i \in DOMAIN slept :
        /\ slept[i] <= 30
        /\ i = 1 => slept[i] = 1
        /\ i > 1 => slept[i] = Min(2 * slept[i - 1], 30)

\* what the last call says about row r: listed by get_all, or found accessible
Granted(r) ==
    \/ accOp.op = "get_all" /\ r \in accOp.rows
    \/ accOp.op = "is_accessible_by" /\ accOp.row = r /\ accOp.ok
\* the rows the last call decided about
Decided ==
    IF accOp.op = "get_all" THEN ItemIds
    ELSE IF accOp.op = "is_accessible_by" THEN {accOp.row} ELSE {}
\* the rows policy pol alone grants the principal, on the path of the last call
Alone(pol) ==
    accessible_rows(IF accOp.op = "get_all" THEN "select" ELSE "query",
                    pol, "item", principal, FALSE)

\* C12: for a principal with "System admin", every row is accessible in every
\* mode under every policy built from Public, Restricted,
\* AccessibleIfUserMatches, AccessibleIfRelatedRowsAreAccessible and their
\* AND/OR compositions, rows without a related row included.
C12_AdminBypass ==
    ( /\ is_admin(principal)
      /\ "Custom" \notin KindsOf(cls_policy)
      /\ rel_logic.kind # "Custom" )
    => \A r \in Decided : Granted(r)

\* C13: a row is in the listing get_all builds with select_accessible_rows iff
\* is_accessible_by, built with query_accessible_rows, is true of it, for
\* every policy, Custom included.
C13_ListingIffAccessible ==
    /\ accOp.op = "get_all" =>
         accOp.rows = accessible_rows("query", cls_policy, "item", principal, FALSE)
    /\ accOp.op = "is_accessible_by" =>
         (accOp.ok <=> accOp.row \in
              accessible_rows("select", cls_policy, "item", principal, FALSE))

\* C14: the rows accessible under (p & q) are those accessible under p and
\* under q, the rows accessible under (p | q) those accessible under p or
\* under q, and (restricted | q) grants a non-admin what q grants and an
\* admin every row.
C14_Composition ==
    (cls_policy.kind \in {"and", "or"} /\ Len(cls_policy.members) = 2) =>
        LET p == cls_policy.members[1]
            q == cls_policy.members[2]
        IN \A r \in Decided :
            /\ cls_policy.kind = "and" =>
                 (Granted(r) <=> r \in Alone(p) \cap Alone(q))
            /\ cls_policy.kind = "or" =>
                 (Granted(r) <=> r \in Alone(p) \cup Alone(q))
            /\ (cls_policy.kind = "or" /\ p = Restricted) =>
                 (Granted(r) <=> (is_admin(principal) \/ r \in Alone(q)))

\* C15: public & q grants exactly the rows q grants, public | q grants every
\* row to every principal, and a composition of Public alone grants every row.
C15_PublicInCompositions ==
    (cls_policy.kind \in {"and", "or"}
       /\ \E i \in DOMAIN cls_policy.members : cls_policy.members[i] = Public) =>
        \A r \in Decided :
            /\ cls_policy.kind = "or" => Granted(r)
            /\ cls_policy.kind = "and" =>
                 (Granted(r) <=>
                    \A i \in DOMAIN cls_policy.members : r \in Alone(cls_policy.members[i]))

\* C16: under AccessibleIfUserMatches a row is accessible to a non-admin Token
\* iff a row its chain ends in has the id token.created_by_id, to a non-admin
\* User iff one has the user's id, and a principal that is neither is rejected.
C16_EffectiveUserId ==
    (cls_policy = AccessibleIfUserMatches /\ ~ is_admin(principal)) =>
        /\ principal.kind = "Token" =>
             \A r \in Decided : Granted(r) <=> principal.created_by_id \in owners[r]
        /\ principal.kind = "User" =>
             \A r \in Decided : Granted(r) <=> principal.id \in owners[r]
        /\ (principal.kind = "None" /\ accOp.op # "none") =>
             /\ accOp.raised # "no"
             /\ \A r \in ItemIds : ~ Granted(r)

\* a token is granted a row of the user who created it and refused another
C16_Witness ==
    /\ principal.kind = "Token" /\ ~ is_admin(principal)
    /\ accOp.op = "get_all"
    /\ accOp.rows # {} /\ accOp.rows # ItemIds
    /\ \A r \in accOp.rows : principal.created_by_id \in owners[r]

\* C17: an AccessError raised while a request is handled gives a response
\* with status 401 and the envelope {"status": "error", "message", "data"}.
C17_AccessErrorStatus ==
    (response.sent /\ response.exc.cls = "AccessError") =>
        /\ response.reply.status = 401
        /\ response.reply.body.status = "error"
        /\ response.reply.body.message = response.exc.reason

\* C18: with "Authorization: token X", no Token X gives 401, a token whose
\* creating user is inactive gives 403, and otherwise the handler runs with
\* the Token as principal; a request without any credentials gives 401 and
\* does not run the handler.
C18_AuthOrToken ==
    response.sent =>
        /\ request.header = "token" =>
             IF ~ request.tok.found
             THEN response.reply.status = 401 /\ ~ response.ran
             ELSE IF request.tok.created_by = "expired"
             THEN response.reply.status = 403 /\ ~ response.ran
             ELSE response.ran /\ response.principal = "Token"
        /\ (request.header = "absent" /\ request.cookie = "None") =>
             response.reply.status = 401 /\ ~ response.ran


\* C19: requests in flight together hold different ids, every session in the
\* registry sits under the id of the request that made it and holds only that
\* request's changes, every operation on a session (obtain, flush, commit,
\* close, and the remove of on_finish) is done by the request that made the
\* session, and a commit writes only the committing request's own changes.
C19_RequestScoping ==
    /\ \A r, s \in Reqs :
          (r # s /\ rpc[r] = "running" /\ rpc[s] = "running") => ctx[r] # ctx[s]
    /\ \A k \in Keys :
          registry[k] # NoSession =>
              /\ registry[k].made_by = k
              /\ registry[k].pending \subseteq {k}
    /\ sessOp # NoOp =>
          /\ sessOp.made_by = sessOp.by
          /\ sessOp.pending \subseteq {sessOp.by}
    /\ \A c \in committed : c[1] = c[2]

\* a request that committed its changes has finished and removed its session
\* while the other request is in flight with changes pending in its own
C19_Witness ==
    /\ sessOp.op = "remove"
    /\ <<sessOp.by, sessOp.by>> \in committed
    /\ \E s \in Reqs :
          /\ rpc[s] = "running"
          /\ ctx[s] < sessOp.by
          /\ registry[ctx[s]].pending = {ctx[s]}


C21_BestEffortWrites ==
    (lastOp.op \in {"broadcast", "heartbeat"}) =>
        LET targets == IF lastOp.op = "broadcast" /\ lastOp.arg \in Users
                       THEN sockets[lastOp.arg]
                       ELSE UNION {sockets[u] : u \in Users}
        IN /\ \A s \in targets : status[s] = "open" => s \in Written
           /\ ~ lastOp.raised


\* what a run of copy_supervisor_configs was given
Discovered == UNION {supIn.dirs[i] : i \in Roots}
InBoth == AsSet(supIn.disabled) \cap AsSet(supIn.enabled)
DisabledNames == IF supIn.disabled.star THEN Discovered ELSE supIn.disabled.names
EnabledNames == IF supIn.enabled.star THEN {} ELSE supIn.enabled.names

\* C22 as stated: the services written are (discovered minus disabled) plus
\* enabled, "*" in disabled standing for every discovered service; a name in
\* both lists is an error and nothing is written.
C22_CompositionAsStated ==
    supOut.ran =>
        IF InBoth # {}
        THEN supOut.exc # "none" /\ supOut.written = {}
        ELSE /\ supOut.exc = "none"
             /\ supOut.written = (Discovered \ DisabledNames) \cup EnabledNames

\* C22: a name in both lists is a RuntimeError and nothing is written; an
\* enabled name that no root holds is a KeyError and nothing is written;
\* otherwise the services written are (discovered minus disabled minus the
\* external services that could not be set up) plus enabled, minus the
\* services that fail the compatibility check.
C22_Composition ==
    supOut.ran =>
        IF InBoth # {}
        THEN supOut.exc = "RuntimeError: both" /\ supOut.written = {}
        ELSE IF ~ (EnabledNames \subseteq Discovered)
        THEN supOut.exc = "KeyError" /\ supOut.written = {}
        ELSE /\ supOut.exc = "none"
             /\ supOut.written =
                   (((Discovered \ (DisabledNames \cup supIn.failed))
                     \cup EnabledNames) \ supIn.incompatible)

\* everything disabled with "*", two services enabled again, one of them
\* incompatible: only the other is written
C22_Witness ==
    /\ supOut.ran
    /\ supOut.exc = "none"
    /\ supIn.disabled.star
    /\ supIn.enabled.names = {"a", "b"}
    /\ supIn.incompatible = {"b"}
    /\ supOut.written = {"a"}

\* C23: a service name found under two roots of services.paths makes
\* copy_supervisor_configs raise the duplicate-definition error.
C23_DuplicateDetection ==
    (supOut.ran /\ \E s \in ServiceNames : \A i \in Roots : s \in supIn.dirs[i]) =>
        supOut.exc = "RuntimeError: duplicate"


\* C24: the manager never goes on to listen after a startup migration that
\* failed.
C24_FailedMigrationExits ==
    mpc = "listening" => boot # "migration failed"

\* C25: GET / reports the value of the most recent inspection; the
\* inspection is run again for a request iff none has been made yet or more
\* than 10 seconds have passed since the previous one; without a migrations
\* directory the value is true.
C25_StatusCache ==
    lastGet.sent =>
        /\ lastGet.migrated = lastInspect.value
        /\ lastGet.inspected <=>
              (\/ lastGet.previous = NoInspect.at
               \/ lastGet.at - lastGet.previous > CacheTimeout)
        /\ ~ mig_exist => lastGet.migrated = "True"

\* a request exactly 10 seconds after the inspection gets the cached false
\* although the database has reached head since
C25_Witness ==
    /\ lastGet.sent
    /\ ~ lastGet.inspected
    /\ lastGet.at - lastGet.previous = CacheTimeout
    /\ lastGet.migrated = "False"
    /\ dbState = "head"


\* C26: AccessibleIfUserMatches("") raises at construction, and no policy
\* with an empty chain is ever compiled to a query.
C26_EmptyChainRejected ==
    (chainIn.isStr /\ chainIn.chars = <<>>) =>
        /\ chainOut.constructed => chainOut.exc # "none"
        /\ chainOut.compiled # "query"


\* C27: a commit whose verification reached the create check and reported
\* nothing had no new row that the principal may not create: a flushed new
\* row that is not create-accessible is among the ids bulk_verify reports.
C27_BulkVerifyExact ==
    ( /\ lastCommit.ran
      /\ \E i \in DOMAIN lastCommit.ev : lastCommit.ev[i] = "create"
      /\ lastCommit.calls = 0 )
    => \A r \in lastCommit.created : Accessible("create", obj[r])


\* C28: every socket is in at most one per-user set, the set of the user id
\* recorded on it, and a closed socket is in no per-user set.
C28_SocketRegistration ==
    \A s \in Sockets :
        /\ \A u \in Users : s \in sockets[u] => user_id[s] = u
        /\ status[s] = "closed" => \A u \in Users : s \notin sockets[u]

\* C30: a socket on which no AUTH OK was sent is written nothing but
\* AUTH REQUEST and AUTH FAILED: no bus message and no heartbeat.
C30_NoDeliveryBeforeAuth ==
    \A i \in DOMAIN out :
        ~ authenticated[out[i][1]] => out[i][2] \in {"AUTH REQUEST", "AUTH FAILED"}

\* a heartbeat or a bus message is written to an authenticated socket while
\* another socket is open and not authenticated
C30_Witness ==
    /\ lastOp.op \in {"broadcast", "heartbeat"}
    /\ out # <<>>
    /\ \E s \in Sockets : status[s] = "open" /\ ~ authenticated[s]


\* C29: against a manager that is unreachable or answers {"migrated": b}, the
\* process stays in the poll loop, neither listening nor ended, for as long
\* as no poll has returned true; while the manager never reports true the
\* polls go on (up to the number of polls the model follows); and if from
\* some point on the manager always reports true, the process eventually
\* listens.
C29_GateLiveness ==
    /\ []( (\A i \in DOMAIN polled : polled[i] \in {"None", "False"})
           => gpc = "polling" )
    /\ [](mgr \in {"down", "not_migrated"}) => <>(Len(polled) = MaxPolls)
    /\ ([](mgr # "no_key") /\ <>[](mgr = "migrated")) => <>(gpc = "listening")

\* the process listens after as many fruitless polls as the model follows
C29_Witness ==
    /\ gpc = "listening"
    /\ Len(polled) = MaxPolls + 1
    /\ slept[MaxPolls] > slept[1]

====
